---- MODULE Spec2Model ----
(***************************************************************************)
(* The code-coverage-report action: one run of run() in src/src/main.ts,   *)
(* with generateMarkdown and its two report helpers.                       *)
(*                                                                         *)
(* Percentages are integers in thousandths of a percent (70000 = 70%),     *)
(* so values finer than the two decimals roundPercentage keeps exist.      *)
(* A value that may be null is a sequence: <<>> is null, <<v>> is v.       *)
(* The single thread runs from one await to the next; each action is one   *)
(* such stretch, and pc is the position of the run.                        *)
(***************************************************************************)
EXTENDS Integers, Sequences, FiniteSets, TLC

VARIABLES pc, env, inputs, artifactPath, baseCoverage, headCoverage, map,
          overallDifferencePercentage, summary, mdFile, outputs, jobSummary,
          failures, log, calls, uploads, threw

vars == <<pc, env, inputs, artifactPath, baseCoverage, headCoverage, map,
          overallDifferencePercentage, summary, mdFile, outputs, jobSummary,
          failures, log, calls, uploads, threw>>

\* Most files of a snapshot in the diff specification.
MaxFiles == 2
\* Most files of a snapshot in the run specification.
MaxRunFiles == 1

Null == <<>>
Some(x) == <<x>>

----------------------------------------------------------------------------
(* Helpers of ./utils, which main.ts imports.                              *)

\* Rounds to two decimals, half away from zero.
roundPercentage(x) ==
    IF x >= 0 THEN ((x + 5) \div 10) * 10 ELSE -(((-x + 5) \div 10) * 10)

\* The tier of a percentage or null: (value, warning ceiling, error ceiling).
colorizePercentageByThreshold(percentage, thresholdMax, thresholdMin) ==
    [value |-> percentage,
     tier  |-> IF percentage = Null THEN "Neutral"
               ELSE IF percentage[1] < thresholdMin THEN "Error"
               ELSE IF percentage[1] < thresholdMax THEN "Warning"
               ELSE "Ok"]

\* The one-argument call: the default ceilings.
colorizePercentageByDefault(percentage) ==
    colorizePercentageByThreshold(percentage, 80000, 50000)

\* The badge colour of a percentage or null: (value, error ceiling, warning ceiling).
colorizeBadgeByThreshold(percentage, thresholdMin, thresholdMax) ==
    IF percentage = Null THEN "Neutral"
    ELSE IF percentage[1] < thresholdMin THEN "Error"
    ELSE IF percentage[1] < thresholdMax THEN "Warning"
    ELSE "Ok"

colorizeBadgeByDefault(percentage) ==
    colorizeBadgeByThreshold(percentage, 50000, 80000)

----------------------------------------------------------------------------
(* The data of interfaces.ts and the inputs of a run.                      *)

\* A CoverageFile: its key in Files (hash), its path and its percentage.
\* The key is derived from the path, so the path is named by the key.
CoverageFile(h, p) == [hash |-> h, relative |-> h, coverage |-> p]

\* Files in insertion order, keys distinct: sequences of at most n files
\* with increasing keys 1..n and percentages in P.
RECURSIVE FilesFrom(_, _, _)
FilesFrom(lo, n, P) ==
    IF lo > n THEN {<<>>}
    ELSE FilesFrom(lo + 1, n, P) \cup
         {<<CoverageFile(lo, p)>> \o rest : p \in P, rest \in FilesFrom(lo + 1, n, P)}

Coverages(n, P, O) ==
    {[files |-> fs, coverage |-> o] : fs \in FilesFrom(1, n, P), o \in O}

FilePcts == {0, 50000, 50004}
RunFilePcts == {0, 50000}
OverallPcts == {0, 40000, 69996, 70000}

Opt(S) == {Null} \cup {Some(x) : x \in S}

EventNames == {"pull_request", "push", "schedule", "workflow_dispatch", "release"}

\* What getInputs() returns, for the fields generateMarkdown reads.
Inputs(thresholds, fileToggle, overallToggle, sectionToggles) ==
    {[overallCoverageFailThreshold |-> t,
      failOnNegativeDifference |-> fd,
      failOnNegativeOverallDifference |-> fo,
      fileCoverageErrorMin |-> 50000,
      fileCoverageWarningMax |-> 80000,
      badge |-> s[1], reportOverallCoverage |-> s[2], reportPackageCoverage |-> s[3],
      markdownFilename |-> "code-coverage-results",
      filename |-> "cov.xml"] :
        t \in thresholds, fd \in fileToggle, fo \in overallToggle, s \in sectionToggles}

AllSections == BOOLEAN \X BOOLEAN \X BOOLEAN

\* The world a run meets: the trigger, the refs, whether the report file
\* exists, whether an artifact of the base ref exists, and what parsing the
\* artifact's copy (base) and the report file (head) gives.
Envs(events, refs, exists, artifacts, bases, heads) ==
    {[GITHUB_EVENT_NAME |-> e, GITHUB_BASE_REF |-> "main", GITHUB_REF_NAME |-> r,
      fileExists |-> x, artifact |-> a, baseReport |-> b, headReport |-> h] :
        e \in events, r \in refs, x \in exists, a \in artifacts, b \in bases, h \in heads}

InitLocals ==
    /\ pc = "start"
    /\ artifactPath = Null
    /\ baseCoverage = Null
    /\ headCoverage = Null
    /\ map = <<>>
    /\ overallDifferencePercentage = Null
    /\ summary = <<>>
    /\ mdFile = Null
    /\ outputs = <<>>
    /\ jobSummary = Null
    /\ failures = <<>>
    /\ log = <<>>
    /\ calls = <<>>
    /\ uploads = <<>>
    /\ threw = FALSE

\* A run that never reads a coverage file or an input: the values are fixed.
InitOther ==
    /\ env \in Envs(EventNames, {"main", "dev"}, BOOLEAN, {Null}, {Null}, {Null})
    /\ inputs \in Inputs({0}, {FALSE}, {FALSE}, {<<TRUE, TRUE, TRUE>>})
    /\ ~(env.GITHUB_EVENT_NAME = "pull_request" /\ env.fileExists)

\* Pull-request runs of the run specification: every toggle and threshold,
\* small snapshots.
RunCoverages == Coverages(MaxRunFiles, RunFilePcts, OverallPcts)

InitRunPR ==
    /\ env \in Envs({"pull_request"}, {"dev"}, {TRUE}, {Null}, {Null}, Opt(RunCoverages))
               \cup Envs({"pull_request"}, {"dev"}, {TRUE}, {Some("artifact")},
                         Opt(RunCoverages), Opt(RunCoverages))
    /\ inputs \in Inputs({0, 50000}, BOOLEAN, BOOLEAN, AllSections)

\* Pull-request runs of the diff specification: every file percentage, every
\* set of files, all sections rendered.
DiffCoverages == Coverages(MaxFiles, FilePcts, {70000})

InitDiffPR ==
    /\ env \in Envs({"pull_request"}, {"dev"}, {TRUE}, {Null}, {Null}, Opt(DiffCoverages))
               \cup Envs({"pull_request"}, {"dev"}, {TRUE}, {Some("artifact")},
                         Opt(DiffCoverages), Opt(DiffCoverages))
    /\ inputs \in Inputs({50000}, BOOLEAN, {FALSE}, {<<TRUE, TRUE, TRUE>>})

Init == InitLocals /\ (InitOther \/ InitRunPR)

InitDiff == InitLocals /\ (InitOther \/ InitDiffPR)

----------------------------------------------------------------------------
(* run(), lines 17-70.                                                      *)

\* A failure: its kind, the file it names (0 for none) and the magnitude its
\* message carries (null for none).
setFailed(kind, file, value) ==
    Append(failures, [kind |-> kind, file |-> file, value |-> value])

\* The catch of run(): an exception of an awaited call ends the run failed.
Catch ==
    /\ failures' = setFailed("Exception", 0, Null)
    /\ threw' = TRUE
    /\ pc' = "done"

\* Where the switch on the trigger goes.
Switch(event) ==
    CASE event = "pull_request" -> "download"
      [] event \in {"push", "schedule", "workflow_dispatch"} -> "upload"
      [] OTHER -> "done"

\* Start, were the return of line 23 missing.
Start_NoReturn ==
    /\ pc = "start"
    /\ calls' = Append(calls, "checkFileExists")
    /\ failures' = IF ~env.fileExists THEN setFailed("Access", 0, Null) ELSE failures
    /\ pc' = Switch(env.GITHUB_EVENT_NAME)
    /\ UNCHANGED <<env, inputs, artifactPath, baseCoverage, headCoverage, map,
                   overallDifferencePercentage, summary, mdFile, outputs,
                   jobSummary, log, uploads, threw>>

\* Lines 19-26: the report file must exist; then the switch.
\* checkFileExists answers true or false (env.fileExists).
Start ==
    /\ pc = "start"
    /\ calls' = Append(calls, "checkFileExists")
    /\ IF ~env.fileExists
       THEN /\ failures' = setFailed("Access", 0, Null)
            /\ pc' = "done"
       ELSE /\ failures' = failures
            /\ pc' = Switch(env.GITHUB_EVENT_NAME)
    /\ UNCHANGED <<env, inputs, artifactPath, baseCoverage, headCoverage, map,
                   overallDifferencePercentage, summary, mdFile, outputs,
                   jobSummary, log, uploads, threw>>

\* AfterDownload, were the base coverage never parsed.
AfterDownload_SkipBase(path) == "parseHead"

\* Where the run goes once the artifact of the base ref was asked for.
AfterDownload(path) == IF path # Null THEN "parseBase" ELSE "parseHead"

\* Lines 28-29: downloadArtifacts(GITHUB_BASE_REF).
DownloadArtifacts ==
    /\ pc = "download"
    /\ calls' = Append(calls, "downloadArtifacts")
    /\ \/ /\ artifactPath' = env.artifact
          /\ pc' = AfterDownload(env.artifact)
          /\ UNCHANGED <<failures, threw>>
       \/ /\ Catch
          /\ UNCHANGED artifactPath
    /\ UNCHANGED <<env, inputs, baseCoverage, headCoverage, map,
                   overallDifferencePercentage, summary, mdFile, outputs,
                   jobSummary, log, uploads>>

\* Lines 30-33: the base coverage, parsed when an artifact was found.
ParseBase ==
    /\ pc = "parseBase"
    /\ calls' = Append(calls, "parseCoverage(base)")
    /\ \/ /\ baseCoverage' = env.baseReport
          /\ pc' = "parseHead"
          /\ UNCHANGED <<failures, threw>>
       \/ /\ Catch
          /\ UNCHANGED baseCoverage
    /\ UNCHANGED <<env, inputs, artifactPath, headCoverage, map,
                   overallDifferencePercentage, summary, mdFile, outputs,
                   jobSummary, log, uploads>>

\* Line 34: the head coverage.
ParseHead ==
    /\ pc = "parseHead"
    /\ calls' = Append(calls, "parseCoverage(head)")
    /\ \/ /\ headCoverage' = env.headReport
          /\ pc' = "checkHead"
          /\ UNCHANGED <<failures, threw>>
       \/ /\ Catch
          /\ UNCHANGED headCoverage
    /\ UNCHANGED <<env, inputs, artifactPath, baseCoverage, map,
                   overallDifferencePercentage, summary, mdFile, outputs,
                   jobSummary, log, uploads>>

\* Lines 36-50: no head coverage fails the run; no base coverage is a
\* warning; then generateMarkdown is entered.
CheckHead ==
    /\ pc = "checkHead"
    /\ IF headCoverage = Null
       THEN /\ failures' = setFailed("Process", 0, Null)
            /\ pc' = "done"
            /\ log' = log
       ELSE /\ failures' = failures
            /\ pc' = "generate"
            /\ log' = IF baseCoverage = Null
                      THEN Append(log, "warning: base is missing the report")
                      ELSE log
    /\ UNCHANGED <<env, inputs, artifactPath, baseCoverage, headCoverage, map,
                   overallDifferencePercentage, summary, mdFile, outputs,
                   jobSummary, calls, uploads, threw>>

\* UploadTag, were the artifact tagged with the base ref.
UploadTag_BaseRef == env.GITHUB_BASE_REF

\* The tag uploadArtifacts is given.
UploadTag == env.GITHUB_REF_NAME

\* Lines 53-62: push, schedule and workflow_dispatch store the report.
UploadArtifacts ==
    /\ pc = "upload"
    /\ calls' = Append(calls, "uploadArtifacts")
    /\ uploads' = Append(uploads, [files |-> <<inputs.filename>>, tag |-> UploadTag])
    /\ \/ /\ log' = log \o <<"info: Uploading", "info: Complete">>
          /\ pc' = "done"
          /\ UNCHANGED <<failures, threw>>
       \/ /\ Catch
          /\ log' = Append(log, "info: Uploading")
    /\ UNCHANGED <<env, inputs, artifactPath, baseCoverage, headCoverage, map,
                   overallDifferencePercentage, summary, mdFile, outputs,
                   jobSummary>>

----------------------------------------------------------------------------
(* generateMarkdown(), lines 72-196.                                        *)

\* Lines 100-102: the percentage of the base file with the same key, or null.
baseCoveragePercentage(base, hash) ==
    IF \E i \in 1..Len(base.files) : base.files[i].hash = hash
    THEN Some(base.files[CHOOSE i \in 1..Len(base.files) :
                             base.files[i].hash = hash].coverage)
    ELSE Null

\* Lines 104-106: the condition is the truthiness of a number or null, so
\* null and 0 both give a null difference.
differencePercentage(file, basePct) ==
    IF basePct # Null /\ basePct[1] # 0
    THEN Some(roundPercentage(file.coverage - basePct[1]))
    ELSE Null

\* FileFails, were the comparison <= 0 instead of < 0.
FileFails_NonPositive(in, difference) ==
    /\ in.failOnNegativeDifference
    /\ difference # Null
    /\ difference[1] <= 0

\* Lines 108-112: the file-level regression policy.
FileFails(in, difference) ==
    /\ in.failOnNegativeDifference
    /\ difference # Null
    /\ difference[1] < 0

\* Lines 88-132: the row of one head file.
Row(file, base, in) ==
    IF base = Null
    THEN [Package  |-> file.relative,
          Coverage |-> colorizePercentageByThreshold(Some(file.coverage),
                           in.fileCoverageWarningMax, in.fileCoverageErrorMin)]
    ELSE LET basePct == baseCoveragePercentage(base[1], file.hash)
         IN [Package      |-> file.relative,
             BaseCoverage |-> colorizePercentageByThreshold(basePct,
                                  in.fileCoverageWarningMax, in.fileCoverageErrorMin),
             NewCoverage  |-> colorizePercentageByThreshold(Some(file.coverage),
                                  in.fileCoverageWarningMax, in.fileCoverageErrorMin),
             Difference   |-> colorizePercentageByDefault(
                                  differencePercentage(file, basePct))]

\* Lines 108-116 over the whole map(): the failures signalled, file by file.
RECURSIVE FileFailures(_, _, _, _)
FileFailures(files, base, in, i) ==
    IF i > Len(files) \/ base = Null THEN <<>>
    ELSE LET d == differencePercentage(files[i],
                      baseCoveragePercentage(base[1], files[i].hash))
         IN (IF FileFails(in, d)
             THEN <<[kind |-> "FileRegression", file |-> files[i].relative,
                     value |-> d]>>
             ELSE <<>>) \o FileFailures(files, base, in, i + 1)

\* ThresholdFails, were the comparison >= instead of >.
ThresholdFails_Inclusive(in, head) == in.overallCoverageFailThreshold >= head.coverage

\* Line 134: the absolute threshold policy.
ThresholdFails(in, head) == in.overallCoverageFailThreshold > head.coverage

\* Lines 140-142: the overall difference, null without a base.
OverallDifference(head, base) ==
    IF base # Null THEN Some(roundPercentage(head.coverage - base[1].coverage))
    ELSE Null

\* OverallFails, were the test for null left out.
OverallFails_NullFails(in, difference) ==
    /\ in.failOnNegativeOverallDifference
    /\ (difference = Null \/ difference[1] < 0)

\* Lines 144-148: the overall regression policy.
OverallFails(in, difference) ==
    /\ in.failOnNegativeOverallDifference
    /\ difference # Null
    /\ difference[1] < 0

\* AfterDiff, were generateMarkdown to return at the first signalled failure.
AfterDiff_FailFast(signalled) == IF signalled # <<>> THEN "done" ELSE "render"

\* Lines 134-152: a signalled failure returns from nothing; the run goes on
\* to the summary whatever the policies signalled.
AfterDiff(signalled) == "render"

\* Lines 76-150: the rows, and the three policies in the order of the code.
Diff ==
    /\ pc = "generate"
    /\ LET head == headCoverage[1]
           d    == OverallDifference(head, baseCoverage)
       IN /\ map' = [i \in 1..Len(head.files) |-> Row(head.files[i], baseCoverage, inputs)]
          /\ overallDifferencePercentage' = d
          /\ failures' = failures
                \o FileFailures(head.files, baseCoverage, inputs, 1)
                \o (IF ThresholdFails(inputs, head)
                    THEN <<[kind |-> "Threshold", file |-> 0, value |-> Some(head.coverage)]>>
                    ELSE <<>>)
                \o (IF OverallFails(inputs, d)
                    THEN <<[kind |-> "OverallRegression", file |-> 0, value |-> d]>>
                    ELSE <<>>)
    /\ calls' = Append(calls, "generateMarkdown")
    /\ pc' = AfterDiff(failures')
    /\ UNCHANGED <<env, inputs, artifactPath, baseCoverage, headCoverage, summary,
                   mdFile, outputs, jobSummary, log, uploads, threw>>

\* Lines 201-218: the per-file table, 2 columns without a base and 4 with one.
generatePackageCoverageReport(base, rows) ==
    [headers |-> IF base = Null THEN <<"Package", "Coverage">>
                 ELSE <<"Package", "Base Coverage", "New Coverage", "Difference">>,
     rows    |-> rows]

\* Lines 223-273: the overall block; the condition is the truthiness of the
\* baseline percentage (undefined without a base).
generateOverallCoverageReport(current, baseline, difference, thresholdMin, thresholdMax) ==
    LET cur == [label |-> "Current", value |-> Some(current),
                color |-> colorizeBadgeByThreshold(Some(current), thresholdMin, thresholdMax)]
    IN IF baseline # Null /\ baseline[1] # 0
       THEN <<cur,
              [label |-> "Baseline", value |-> baseline,
               color |-> colorizeBadgeByThreshold(baseline, thresholdMin, thresholdMax)],
              [label |-> "Difference", value |-> difference,
               color |-> colorizeBadgeByDefault(difference)]>>
       ELSE <<cur>>

Break == [kind |-> "break"]

\* Lines 154-164.
BadgeSection(in, head) ==
    IF in.badge
    THEN <<[kind |-> "image", coverage |-> head.coverage,
            color |-> colorizeBadgeByThreshold(Some(head.coverage),
                          in.fileCoverageErrorMin, in.fileCoverageWarningMax)]>>
    ELSE <<>>

\* Lines 166-178.
OverallSection(in, head, base, difference) ==
    IF in.reportOverallCoverage
    THEN <<Break,
           [kind |-> "overall",
            rows |-> generateOverallCoverageReport(head.coverage,
                         IF base = Null THEN Null ELSE Some(base[1].coverage),
                         difference, in.fileCoverageErrorMin, in.fileCoverageWarningMax)],
           Break>>
    ELSE <<>>

\* Lines 180-186: the table, a break and the footnote are one chain under
\* the reportPackageCoverage condition.
PackageSection(in, head, base, rows) ==
    IF in.reportPackageCoverage
    THEN <<[kind |-> "table", table |-> generatePackageCoverageReport(base, rows)],
           Break,
           [kind |-> "footnote", threshold |-> in.overallCoverageFailThreshold,
            coverage |-> head.coverage]>>
    ELSE <<>>

\* Lines 152-186: the summary buffer.
Render ==
    /\ pc = "render"
    /\ summary' = <<[kind |-> "heading", text |-> "Code Coverage Report"]>>
                  \o BadgeSection(inputs, headCoverage[1])
                  \o OverallSection(inputs, headCoverage[1], baseCoverage,
                                    overallDifferencePercentage)
                  \o PackageSection(inputs, headCoverage[1], baseCoverage, map)
    /\ calls' = Append(calls, "render")
    /\ pc' = "writeFile"
    /\ UNCHANGED <<env, inputs, artifactPath, baseCoverage, headCoverage, map,
                   overallDifferencePercentage, mdFile, outputs, jobSummary,
                   failures, log, uploads, threw>>

\* Lines 189-190: the buffer is written to <markdownFilename>.md.
WriteFile ==
    /\ pc = "writeFile"
    /\ calls' = Append(calls, "writeFile")
    /\ log' = Append(log, "info: Writing results")
    /\ \/ /\ mdFile' = Some([name |-> <<inputs.markdownFilename, ".md">>,
                             content |-> summary])
          /\ pc' = "outputs"
          /\ UNCHANGED <<failures, threw>>
       \/ /\ Catch
          /\ UNCHANGED mdFile
    /\ UNCHANGED <<env, inputs, artifactPath, baseCoverage, headCoverage, map,
                   overallDifferencePercentage, summary, outputs, jobSummary,
                   uploads>>

\* Lines 191-195: the two outputs, then summary.write(), which writes the
\* buffer to the job summary and empties it.
SummaryWrite ==
    /\ pc = "outputs"
    /\ outputs' = <<[name |-> "file", value |-> <<inputs.markdownFilename, ".md">>],
                    [name |-> "coverage", value |-> headCoverage[1].coverage]>>
    /\ calls' = Append(calls, "summary.write")
    /\ log' = Append(log, "info: Writing job summary")
    /\ \/ /\ jobSummary' = Some(summary)
          /\ summary' = <<>>
          /\ pc' = "done"
          /\ UNCHANGED <<failures, threw>>
       \/ /\ Catch
          /\ UNCHANGED <<jobSummary, summary>>
    /\ UNCHANGED <<env, inputs, artifactPath, baseCoverage, headCoverage, map,
                   overallDifferencePercentage, mdFile, uploads>>

----------------------------------------------------------------------------
Next ==
    \/ Start
    \/ DownloadArtifacts
    \/ ParseBase
    \/ ParseHead
    \/ CheckHead
    \/ UploadArtifacts
    \/ Diff
    \/ Render
    \/ WriteFile
    \/ SummaryWrite

\* Runs with every toggle and threshold, on small snapshots.
Spec == Init /\ [][Next]_vars

\* Runs with every set of files and file percentage.
SpecDiff == InitDiff /\ [][Next]_vars

----------------------------------------------------------------------------
(* What the claims speak of.                                                *)

IsPR == env.GITHUB_EVENT_NAME = "pull_request"
IsPushLike == env.GITHUB_EVENT_NAME \in {"push", "schedule", "workflow_dispatch"}
Failed == failures # <<>>
Kinds(fs) == {fs[i].kind : i \in 1..Len(fs)}
Called(name) == \E i \in 1..Len(calls) : calls[i] = name
IsPrefix(s, t) == Len(s) <= Len(t) /\ \A i \in 1..Len(s) : s[i] = t[i]
IsKind(k, f) == f.kind = k
OfKind(k, fs) == LET Test(f) == IsKind(k, f) IN SelectSeq(fs, Test)
\* generateMarkdown has run its policies (lines 76-150).
ReachedReport == Called("generateMarkdown")
ReportName == <<inputs.markdownFilename, ".md">>

\* C1: fail-at-end. A pull_request run whose report file exists, whose head
\* coverage loads and in which no call throws does not stop before its end,
\* and at its end the report is in <markdownFilename>.md, the outputs file
\* and coverage are set and the job summary holds the same report, whatever
\* failures were signalled.
C1_FailAtEnd ==
    (IsPR /\ env.fileExists /\ env.headReport # Null /\ ~threw) =>
        /\ pc # "done" => ENABLED Next
        /\ pc = "done" =>
              /\ mdFile # Null
              /\ mdFile[1].name = ReportName
              /\ outputs = <<[name |-> "file", value |-> ReportName],
                             [name |-> "coverage", value |-> env.headReport[1].coverage]>>
              /\ jobSummary # Null
              /\ jobSummary[1] = mdFile[1].content
              /\ Called("render")

\* A finished run with all three kinds of failure signalled and the report,
\* the outputs and the job summary written.
C1_Witness ==
    /\ pc = "done" /\ IsPR /\ ~threw
    /\ {"FileRegression", "Threshold", "OverallRegression"} \subseteq Kinds(failures)
    /\ mdFile # Null /\ jobSummary # Null /\ Len(outputs) = 2

\* C2: absolute threshold. Once generateMarkdown has run its policies, the
\* threshold failure is signalled (and the run is failed) exactly when the head
\* overall coverage is below overallCoverageFailThreshold, with or without a
\* base and whatever the regression toggles are.
C2_AbsoluteThreshold ==
    ReachedReport =>
        /\ headCoverage[1].coverage < inputs.overallCoverageFailThreshold
              => Failed /\ "Threshold" \in Kinds(failures)
        /\ headCoverage[1].coverage >= inputs.overallCoverageFailThreshold
              => "Threshold" \notin Kinds(failures)

\* Head at 40% under a threshold of 50% with no base: the run is failed.
C2_Witness ==
    /\ ReachedReport /\ baseCoverage = Null
    /\ headCoverage[1].coverage = 40000
    /\ inputs.overallCoverageFailThreshold = 50000
    /\ "Threshold" \in Kinds(failures)

\* The head files whose key is in the base and whose rounded difference is < 0.
Regressed(head, base) ==
    {i \in 1..Len(head.files) :
        \E j \in 1..Len(base.files) :
            /\ base.files[j].hash = head.files[i].hash
            /\ roundPercentage(head.files[i].coverage - base.files[j].coverage) < 0}

\* C3: file-level regression. With a base, once the policies have run: with
\* failOnNegativeDifference on, one failure is signalled for each head file
\* whose difference is < 0, in the order of the files, and none for any other
\* file; with the toggle off no file-level failure is signalled.
C3_FileRegression ==
    (ReachedReport /\ baseCoverage # Null) =>
        LET head == headCoverage[1]
            sig  == OfKind("FileRegression", failures)
            reg  == Regressed(head, baseCoverage[1])
        IN IF inputs.failOnNegativeDifference
           THEN /\ Len(sig) = Cardinality(reg)
                /\ {sig[k].file : k \in 1..Len(sig)} = {head.files[i].relative : i \in reg}
                /\ \A k \in 1..Len(sig) : sig[k].value # Null /\ sig[k].value[1] < 0
                /\ \A k \in 1..Len(sig) : \A l \in 1..Len(sig) :
                       k < l => sig[k].file < sig[l].file
           ELSE sig = <<>>

\* Two files regress in one run and both are signalled.
C3_Witness ==
    /\ ReachedReport /\ baseCoverage # Null
    /\ Len(OfKind("FileRegression", failures)) = 2

\* C4: overall regression. With a base and failOnNegativeOverallDifference on,
\* the run is failed whenever head overall - base overall < 0, drops below
\* 0.005 included; with the toggle off, or head >= base, nothing is signalled
\* by this policy.
C4_OverallRegression ==
    (ReachedReport /\ baseCoverage # Null) =>
        LET delta == headCoverage[1].coverage - baseCoverage[1].coverage
        IN /\ (inputs.failOnNegativeOverallDifference /\ delta < 0) => Failed
           /\ (~inputs.failOnNegativeOverallDifference \/ delta >= 0)
                 => "OverallRegression" \notin Kinds(failures)

\* C5: per-file difference. With a base, every head file has one row; a file
\* whose key is not in the base has a null base percentage and a null
\* difference; a file whose key is in the base has the difference
\* round(head - base), for every base percentage, 0 included.
C5_PerFileDelta ==
    (ReachedReport /\ baseCoverage # Null) =>
        LET head == headCoverage[1]
            base == baseCoverage[1]
        IN /\ Len(map) = Len(head.files)
           /\ \A i \in 1..Len(head.files) :
                LET f == head.files[i]
                    J == {j \in 1..Len(base.files) : base.files[j].hash = f.hash}
                IN /\ map[i].Package = f.relative
                   /\ J = {} => /\ map[i].BaseCoverage.value = Null
                                /\ map[i].Difference.value = Null
                   /\ \A j \in J :
                        map[i].Difference.value =
                            Some(roundPercentage(f.coverage - base.files[j].coverage))

\* C6: input unavailable. Whatever the trigger, a run whose report file does
\* not exist ends at once, failed, having called nothing but the existence
\* check; and a pull_request run whose head coverage loads as null ends
\* failed with no report file, no output and no job summary.
C6_InputUnavailable ==
    /\ (~env.fileExists /\ pc # "start") =>
          /\ pc = "done" /\ ~ENABLED Next
          /\ Failed /\ Kinds(failures) = {"Access"}
          /\ calls = <<"checkFileExists">>
          /\ uploads = <<>> /\ artifactPath = Null
          /\ baseCoverage = Null /\ headCoverage = Null
          /\ summary = <<>> /\ mdFile = Null /\ outputs = <<>> /\ jobSummary = Null
    /\ (IsPR /\ env.fileExists /\ env.headReport = Null) =>
          /\ ~Called("generateMarkdown") /\ ~Called("render")
          /\ mdFile = Null /\ outputs = <<>> /\ jobSummary = Null
          /\ pc = "done" => Failed /\ ~ENABLED Next

\* A pull_request run whose report file is missing has ended failed.
C6_Witness ==
    /\ pc = "done" /\ ~env.fileExists /\ IsPR
    /\ Kinds(failures) = {"Access"}

\* What C7 says of a pull_request run without base coverage whose head
\* coverage loaded, but for when the run is failed.
C7_Baseless ==
    /\ \E i \in 1..Len(log) : log[i] = "warning: base is missing the report"
    /\ Kinds(failures) \cap {"FileRegression", "OverallRegression"} = {}
    /\ ReachedReport =>
          /\ overallDifferencePercentage = Null
          /\ Len(map) = Len(headCoverage[1].files)
          /\ \A i \in 1..Len(map) :
                /\ DOMAIN map[i] = {"Package", "Coverage"}
                /\ map[i].Coverage.value = Some(headCoverage[1].files[i].coverage)
    /\ \A i \in 1..Len(summary) :
          /\ summary[i].kind = "table"
                => summary[i].table.headers = <<"Package", "Coverage">>
          /\ summary[i].kind = "overall" => Len(summary[i].rows) = 1

\* The head coverage has loaded and lines 36-48 have run.
PastCheckHead == headCoverage # Null /\ pc # "checkHead"

\* C7 as stated: baseline-unavailable is non-fatal, and such a run is failed
\* only if the absolute threshold policy fires.
C7_BaselineUnavailable_Original ==
    (IsPR /\ PastCheckHead /\ baseCoverage = Null) =>
        /\ C7_Baseless
        /\ Failed => "Threshold" \in Kinds(failures)

\* C7, amended: baseline-unavailable is non-fatal: a warning, a baseline-less
\* report, no regression failure even with both toggles on; such a run is
\* failed only if the absolute threshold policy fires or a call threw.
C7_BaselineUnavailable ==
    (IsPR /\ PastCheckHead /\ baseCoverage = Null) =>
        /\ C7_Baseless
        /\ Failed => ("Threshold" \in Kinds(failures) \/ threw)
        /\ threw = ("Exception" \in Kinds(failures))

\* A finished baseline-less run with both toggles on, a head file and no failure.
C7_Witness ==
    /\ pc = "done" /\ IsPR /\ PastCheckHead /\ baseCoverage = Null
    /\ inputs.failOnNegativeDifference /\ inputs.failOnNegativeOverallDifference
    /\ Len(map) > 0 /\ ~Failed /\ jobSummary # Null

\* C8: other triggers. With the report file there: push, schedule and
\* workflow_dispatch store one artifact, the report file tagged with the
\* current ref name, and fail only if the store throws; any other trigger
\* but pull_request does nothing; none of them retrieves, parses or renders.
C8_NonPullRequest ==
    (~IsPR /\ env.fileExists) =>
        /\ ~Called("downloadArtifacts") /\ ~Called("parseCoverage(base)")
        /\ ~Called("parseCoverage(head)") /\ ~Called("generateMarkdown")
        /\ ~Called("render")
        /\ mdFile = Null /\ outputs = <<>> /\ jobSummary = Null /\ summary = <<>>
        /\ Failed => (IsPushLike /\ threw)
        /\ (IsPushLike /\ pc = "done") =>
              /\ uploads = <<[files |-> <<inputs.filename>>, tag |-> env.GITHUB_REF_NAME]>>
              /\ calls = <<"checkFileExists", "uploadArtifacts">>
        /\ (~IsPushLike /\ pc = "done") =>
              /\ uploads = <<>>
              /\ calls = <<"checkFileExists">>
        /\ pc # "start" => (pc = "done" \/ (IsPushLike /\ pc = "upload"))

\* A schedule run on ref dev has stored its artifact and is not failed.
C8_Witness ==
    /\ pc = "done" /\ env.GITHUB_EVENT_NAME = "schedule" /\ env.fileExists
    /\ env.GITHUB_REF_NAME = "dev" /\ Len(uploads) = 1 /\ ~Failed

\* The sections of a buffer but for the breaks.
Sections(buffer) == LET Test(b) == b.kind # "break" IN SelectSeq(buffer, Test)

\* C9: section order. The rendered report is the heading, the badge image iff
\* badge, the overall block iff reportOverallCoverage, the per-file table iff
\* reportPackageCoverage, and always the footnote with the threshold and the
\* overall percentage last.
C9_SectionOrder ==
    pc \in {"writeFile", "outputs"} =>
        LET secs == Sections(summary)
            want == <<"heading">>
                    \o (IF inputs.badge THEN <<"image">> ELSE <<>>)
                    \o (IF inputs.reportOverallCoverage THEN <<"overall">> ELSE <<>>)
                    \o (IF inputs.reportPackageCoverage THEN <<"table">> ELSE <<>>)
                    \o <<"footnote">>
        IN /\ [i \in 1..Len(secs) |-> secs[i].kind] = want
           /\ secs[Len(secs)].threshold = inputs.overallCoverageFailThreshold
           /\ secs[Len(secs)].coverage = headCoverage[1].coverage

\* The first call of the named step, 0 if there is none.
FirstCall(name) ==
    IF Called(name) THEN CHOOSE i \in 1..Len(calls) :
                             calls[i] = name /\ \A j \in 1..(i - 1) : calls[j] # name
    ELSE 0

\* C10 as stated: retrieve, load head, load base (if an artifact was
\* retrieved), diff, render; base coverage is loaded only after head coverage
\* has loaded, and never when the head coverage is unreadable.
C10_StepOrder_Original ==
    IsPR =>
        /\ Called("parseCoverage(base)") =>
              /\ Called("parseCoverage(head)")
              /\ FirstCall("parseCoverage(head)") < FirstCall("parseCoverage(base)")
              /\ env.headReport # Null
              /\ artifactPath # Null
        /\ Called("parseCoverage(head)") => Called("downloadArtifacts")
        /\ Called("render") => Called("generateMarkdown")

\* The steps of a pull_request run in the order of the code.
StepOrder ==
    <<"checkFileExists", "downloadArtifacts">>
    \o (IF env.artifact # Null THEN <<"parseCoverage(base)">> ELSE <<>>)
    \o <<"parseCoverage(head)", "generateMarkdown", "render", "writeFile",
         "summary.write">>

\* C10, amended: the steps of a pull_request run are, in this order: retrieve
\* the base artifact, load base coverage (only if an artifact was retrieved),
\* load head coverage, diff, render; so base coverage is loaded before head
\* coverage, also in a run whose head coverage is unreadable, which then
\* fails without a diff; render never starts before both loads are finished.
C10_StepOrder ==
    IsPR =>
        /\ IsPrefix(calls, StepOrder)
        /\ Called("parseCoverage(base)") => artifactPath # Null
        /\ Called("generateMarkdown") =>
              /\ headCoverage # Null /\ headCoverage = env.headReport
              /\ artifactPath # Null => baseCoverage = env.baseReport
        /\ (pc = "done" /\ env.headReport = Null /\ env.fileExists) =>
              Failed /\ ~Called("generateMarkdown")

\* A run that retrieved an artifact, loaded base then head, and rendered.
C10_Witness ==
    /\ IsPR /\ Called("render") /\ artifactPath # Null /\ baseCoverage # Null
    /\ FirstCall("parseCoverage(base)") < FirstCall("parseCoverage(head)")

====
